---- MODULE Spec2Model ----
(***************************************************************************)
(* Versioned directed graph ("tree" of versions, each owning nodes and     *)
(* edges): models.py (Tree, TreeVersion, TreeNode, TreeEdge) and the       *)
(* traversal / path-finding closures of tests.py, example.py and           *)
(* interactive_test.py.                                                    *)
(*                                                                         *)
(* The tables are sequences: the row with primary key i is element i (the  *)
(* code never deletes a row and never rolls back, so SQLite hands out the  *)
(* keys 1, 2, 3, ... in insertion order).  All operations run on the one   *)
(* shared Session; `committed` counts, per table, the rows of the session  *)
(* that a commit has already written: rows above the count are flushed or  *)
(* pending in the session's open transaction (the session's own queries    *)
(* see them through autoflush, other connections do not).                  *)
(***************************************************************************)
EXTENDS Integers, Sequences, FiniteSets, TLC

VARIABLES trees, versions, nodes, edges, committed, clock, last, failed,
          walk, found

vars == <<trees, versions, nodes, edges, committed, clock, last, failed,
          walk, found>>

store == <<trees, versions, nodes, edges, committed, clock, last, failed>>

\* ------------------------------------------------------------------ bounds
MaxTrees == 2
MaxVersions == 3
MaxNodes == 4
MaxEdges == 2
\* add_node / add_edge are called only while the table holds fewer rows than
MaxAddNode == 2
MaxAddEdge == 1
WalkNodes == 3
WalkEdges == 3

\* ------------------------------------------------------------ value domains
Null == "None"
Tags == {"v1.0", "release-v1.0"}
Data == {"value1", "value2"}
Descriptions == {"First stable release"}

\* description=f"New version from tag {tag}" / f"Restored version from tag {tag}"
UserDescription(d) == <<"text", d>>
BranchDescription(tag) == <<"New version from tag", tag>>
RestoreDescription(tag) == <<"Restored version from tag", tag>>

NoError == "ok"
NoVersionsExist == "ValueError: No versions exist to tag."
TagNotFound == "ValueError: No version with tag found"
NodeNotFound == "ValueError: One or both nodes do not exist in this version"
DanglingReference == "KeyError"

\* ---------------------------------------------------------------- helpers
Min(S) == CHOOSE x \in S : \A y \in S : x <= y

\* the ids of S in ascending order (the order SQLite returns rows in)
RECURSIVE SortedSeq(_)
SortedSeq(S) == IF S = {} THEN <<>>
                ELSE LET m == Min(S) IN <<m>> \o SortedSeq(S \ {m})

\* index of x in the sequence s (x occurs once)
IndexOf(s, x) == CHOOSE i \in DOMAIN s : s[i] = x

VersionIds == DOMAIN versions
NodeIds == DOMAIN nodes
EdgeIds == DOMAIN edges

\* TreeVersion.nodes / TreeVersion.edges relationships, as sets of ids
NodesOf(v) == {n \in NodeIds : nodes[n].tree_version_id = v}
EdgesOf(v) == {e \in EdgeIds : edges[e].tree_version_id = v}

VersionsOfTree(t) == {v \in VersionIds : versions[v].tree_id = t}

\* rows a commit has written, i.e. what another connection reads
CommittedVersions == 1..committed.versions
CommittedNodes == 1..committed.nodes
CommittedEdges == 1..committed.edges

\* session.commit(): everything the session holds becomes durable
CommitAll(vs, ns, es) == [versions |-> Len(vs), nodes |-> Len(ns), edges |-> Len(es)]

\* what the last call was, the row it was called on (0: none), the row it
\* made (0: none) and how it ended
Outcome(op, source, result, error) ==
    [op |-> op, source |-> source, result |-> result, error |-> error]

\* ------------------------------------------------------------------- Tree
\* get_latest_version with a fault: no filter_by(tree_id=self.id)
get_latest_version_AnyTree(t) ==
    IF VersionIds = {} THEN 0
    ELSE CHOOSE v \in VersionIds :
            \A w \in VersionIds : versions[w].created_at <= versions[v].created_at

\* Tree.get_latest_version: order_by(created_at.desc()).first(); 0 for None
get_latest_version(t) ==
    IF VersionsOfTree(t) = {} THEN 0
    ELSE CHOOSE v \in VersionsOfTree(t) :
            \A w \in VersionsOfTree(t) : versions[w].created_at <= versions[v].created_at

\* get_version_by_tag with a fault: the tag alone is matched, as Tree.get_by_tag does
get_version_by_tag_AnyTree(t, tag) ==
    LET hits == {v \in VersionIds : versions[v].tag = tag}
    IN IF hits = {} THEN 0 ELSE Min(hits)

\* Tree.get_version_by_tag: filter_by(tree_id, tag).first(); 0 for None
get_version_by_tag(t, tag) ==
    LET hits == {v \in VersionsOfTree(t) : versions[v].tag = tag}
    IN IF hits = {} THEN 0 ELSE Min(hits)

\* ------------------------------------------------------------ TreeVersion
\* NewVersionRow with a fault: parent_version_id=new_version.id, not self.id
NewVersionRow_SelfParent(v, tag, description) ==
    [tree_id |-> versions[v].tree_id, parent_version_id |-> Len(versions) + 1,
     tag |-> tag, description |-> description, created_at |-> clock]

\* TreeVersion(tree_id=self.tree_id, parent_version_id=self.id, tag=tag,
\*             description=description); created_at defaults to utcnow()
NewVersionRow(v, tag, description) ==
    [tree_id |-> versions[v].tree_id, parent_version_id |-> v, tag |-> tag,
     description |-> description, created_at |-> clock]

\* TreeNode(tree_version_id=new_version.id, data=node.data)
CopyNode(new_id, node) == [tree_version_id |-> new_id, data |-> node.data]

\* CopyEdge with a fault: the copy is filed under the version of the original
CopyEdge_KeepVersion(new_id, edge, old_to_new_node) ==
    [tree_version_id |-> edge.tree_version_id,
     incoming_node_id |-> old_to_new_node[edge.incoming_node_id],
     outgoing_node_id |-> old_to_new_node[edge.outgoing_node_id],
     data |-> edge.data]

\* TreeEdge(tree_version_id=new_version.id,
\*          incoming_node_id=old_to_new_node[edge.incoming_node_id],
\*          outgoing_node_id=old_to_new_node[edge.outgoing_node_id], data=edge.data)
CopyEdge(new_id, edge, old_to_new_node) ==
    [tree_version_id |-> new_id,
     incoming_node_id |-> old_to_new_node[edge.incoming_node_id],
     outgoing_node_id |-> old_to_new_node[edge.outgoing_node_id],
     data |-> edge.data]

\* the dict old_to_new_node after the node loop: the i-th node of self.nodes
\* is flushed as row Len(nodes) + i
NodeRemap(v) ==
    LET src == SortedSeq(NodesOf(v))
    IN [o \in NodesOf(v) |-> Len(nodes) + IndexOf(src, o)]

\* old_to_new_node[...] raises KeyError for an id that is no key of the dict
Remappable(edge, old_to_new_node) ==
    /\ edge.incoming_node_id \in DOMAIN old_to_new_node
    /\ edge.outgoing_node_id \in DOMAIN old_to_new_node

\* number of edges of self.edges the edge loop copies before it stops: all of
\* them, or those before the first one whose endpoint is no key of the dict
EdgesCopied(v, old_to_new_node) ==
    LET src == SortedSeq(EdgesOf(v))
        bad == {i \in DOMAIN src : ~Remappable(edges[src[i]], old_to_new_node)}
    IN IF bad = {} THEN Len(src) ELSE Min(bad) - 1

\* TreeVersion.create_new_version, called by `op` of tree t on version v.
\* The version row and the node rows are flushed, the edges added; the commit
\* is reached only if no lookup in old_to_new_node raised.  The code has no
\* except/rollback: on KeyError the rows stay in the session's transaction.
create_new_version(op, v, tag, description) ==
    LET new_id == Len(versions) + 1
        srcN == SortedSeq(NodesOf(v))
        srcE == SortedSeq(EdgesOf(v))
        old_to_new_node == NodeRemap(v)
        k == EdgesCopied(v, old_to_new_node)
        new_versions == Append(versions, NewVersionRow(v, tag, description))
        new_nodes == nodes \o [i \in 1..Len(srcN) |-> CopyNode(new_id, nodes[srcN[i]])]
        new_edges == edges \o [i \in 1..k |-> CopyEdge(new_id, edges[srcE[i]], old_to_new_node)]
        ok == k = Len(srcE)
    IN /\ Len(versions) < MaxVersions
       /\ Len(nodes) + Len(srcN) <= MaxNodes
       /\ Len(edges) + k <= MaxEdges
       /\ versions' = new_versions
       /\ nodes' = new_nodes
       /\ edges' = new_edges
       /\ clock' = clock + 1
       /\ committed' = IF ok THEN CommitAll(new_versions, new_nodes, new_edges)
                       ELSE committed
       /\ failed' = IF ok THEN failed ELSE failed \cup {new_id}
       /\ last' = Outcome(op, v, new_id, IF ok THEN NoError ELSE DanglingReference)
       /\ UNCHANGED <<trees, walk, found>>

\* an operation that raised before it touched the session
Raise(op, error) ==
    /\ last' = Outcome(op, 0, 0, error)
    /\ UNCHANGED <<trees, versions, nodes, edges, committed, clock, failed, walk, found>>

\* Tree.create_tag
create_tag(t, tag, description) ==
    LET latest == get_latest_version(t)
    IN IF latest = 0
       THEN Raise("create_tag", NoVersionsExist)
       ELSE create_new_version("create_tag", latest, tag, UserDescription(description))

\* Tree.create_new_tree_version_from_tag
create_new_tree_version_from_tag(t, tag) ==
    LET version == get_version_by_tag(t, tag)
    IN IF version = 0
       THEN Raise("create_new_tree_version_from_tag", TagNotFound)
       ELSE create_new_version("create_new_tree_version_from_tag", version, Null,
                               BranchDescription(tag))

\* Tree.restore_from_tag
restore_from_tag(t, tag) ==
    LET version == get_version_by_tag(t, tag)
    IN IF version = 0
       THEN Raise("restore_from_tag", TagNotFound)
       ELSE create_new_version("restore_from_tag", version, Null,
                               RestoreDescription(tag))

\* TreeVersion.add_node
add_node(v, data) ==
    LET new_nodes == Append(nodes, [tree_version_id |-> v, data |-> data])
    IN /\ Len(nodes) < MaxAddNode
       /\ nodes' = new_nodes
       /\ committed' = CommitAll(versions, new_nodes, edges)
       /\ last' = Outcome("add_node", v, Len(new_nodes), NoError)
       /\ UNCHANGED <<trees, versions, edges, clock, failed, walk, found>>

\* add_edge with a fault: only the first endpoint is looked up
add_edge_FirstOnly(v, node_id_1, node_id_2, data) ==
    /\ Len(edges) < MaxAddEdge
    /\ IF node_id_1 \notin NodeIds
       THEN /\ last' = Outcome("add_edge", v, 0, NodeNotFound)
            /\ UNCHANGED <<trees, versions, nodes, edges, committed, clock, failed,
                           walk, found>>
       ELSE LET new_edges == Append(edges, [tree_version_id |-> v,
                                            incoming_node_id |-> node_id_1,
                                            outgoing_node_id |-> node_id_2,
                                            data |-> data])
            IN /\ edges' = new_edges
               /\ committed' = CommitAll(versions, nodes, new_edges)
               /\ last' = Outcome("add_edge", v, Len(new_edges), NoError)
               /\ UNCHANGED <<trees, versions, nodes, clock, failed, walk, found>>

\* TreeVersion.add_edge: session.get(TreeNode, id) finds a node of any version
add_edge(v, node_id_1, node_id_2, data) ==
    /\ Len(edges) < MaxAddEdge
    /\ IF node_id_1 \notin NodeIds \/ node_id_2 \notin NodeIds
       THEN /\ last' = Outcome("add_edge", v, 0, NodeNotFound)
            /\ UNCHANGED <<trees, versions, nodes, edges, committed, clock, failed,
                           walk, found>>
       ELSE LET new_edges == Append(edges, [tree_version_id |-> v,
                                            incoming_node_id |-> node_id_1,
                                            outgoing_node_id |-> node_id_2,
                                            data |-> data])
            IN /\ edges' = new_edges
               /\ committed' = CommitAll(versions, nodes, new_edges)
               /\ last' = Outcome("add_edge", v, Len(new_edges), NoError)
               /\ UNCHANGED <<trees, versions, nodes, clock, failed, walk, found>>

\* ------------------------------------------------------- callers' set-up
\* tree = Tree(name=...); session.add(tree); session.commit()
CreateTree ==
    /\ Len(trees) < MaxTrees
    /\ trees' = Append(trees, [name |-> "Root Configuration"])
    /\ committed' = CommitAll(versions, nodes, edges)
    /\ last' = Outcome("Tree", 0, Len(trees) + 1, NoError)
    /\ UNCHANGED <<versions, nodes, edges, clock, failed, walk, found>>

\* first_version = TreeVersion(tree_id=tree.id, tag="v1.0", description=...);
\* session.add(first_version); session.commit()
CreateFirstVersion(t, description) ==
    LET new_versions == Append(versions, [tree_id |-> t, parent_version_id |-> 0,
                                          tag |-> "v1.0",
                                          description |-> UserDescription(description),
                                          created_at |-> clock])
    IN /\ VersionsOfTree(t) = {}
       /\ Len(versions) < MaxVersions
       /\ versions' = new_versions
       /\ clock' = clock + 1
       /\ committed' = CommitAll(new_versions, nodes, edges)
       /\ last' = Outcome("TreeVersion", 0, Len(new_versions), NoError)
       /\ UNCHANGED <<trees, nodes, edges, failed, walk, found>>

\* ----------------------------------------------------------- traversal
NoWalk == [status |-> "idle", stack |-> <<>>, visits |-> <<>>]
NoPath == [start |-> 0, end |-> 0, path |-> <<>>]

\* the interpreter's recursion limit, scaled to the model: deeper than any
\* walk of a graph without a cycle
RecursionLimit == Len(nodes) + 2

\* EdgesFrom with a fault: the filter tests outgoing_node_id
EdgesFrom_Reversed(node_id) ==
    SortedSeq({e \in EdgeIds : edges[e].outgoing_node_id = node_id})

\* select(TreeEdge).filter(TreeEdge.incoming_node_id == node_id) ... .all():
\* the edges of any version that leave the node, in row order
EdgesFrom(node_id) ==
    SortedSeq({e \in EdgeIds : edges[e].incoming_node_id = node_id})

\* a call traverse_tree(node_id): the node is printed, its edges are fetched
Frame(node_id) == [node |-> node_id, todo |-> EdgesFrom(node_id)]

\* traverse_tree(node1.id), the outermost call
traverse_tree(node_id) ==
    /\ walk.status = "idle"
    /\ found = NoPath
    /\ walk' = [status |-> "running", stack |-> <<Frame(node_id)>>,
                visits |-> <<node_id>>]
    /\ UNCHANGED <<store, found>>

\* for edge in edges: ... traverse_tree(edge.outgoing_node_id); there is no
\* visited set, so a frame is pushed whatever the node; past the recursion
\* limit the interpreter raises RecursionError and the walk is abandoned
WalkCall ==
    /\ walk.status = "running"
    /\ Head(walk.stack).todo # <<>>
    /\ LET top == Head(walk.stack)
           next == edges[Head(top.todo)].outgoing_node_id
           rest == <<[top EXCEPT !.todo = Tail(top.todo)]>> \o Tail(walk.stack)
       IN walk' = IF Len(walk.stack) >= RecursionLimit
                  THEN [walk EXCEPT !.status = "RecursionError", !.stack = <<>>]
                  ELSE [walk EXCEPT !.stack = <<Frame(next)>> \o rest,
                                    !.visits = Append(walk.visits, next)]
    /\ UNCHANGED <<store, found>>

\* the for loop of a call is exhausted: the call returns to its caller
WalkReturn ==
    /\ walk.status = "running"
    /\ Head(walk.stack).todo = <<>>
    /\ walk' = [walk EXCEPT !.stack = Tail(walk.stack),
                            !.status = IF Len(walk.stack) = 1 THEN "done" ELSE "running"]
    /\ UNCHANGED <<store, found>>

\* PopPath with a fault: the node of a failed call stays on the path
PopPath_Keep(path) == path

\* path.pop()
PopPath(path) == SubSeq(path, 1, Len(path) - 1)

\* find_path.dfs(node_id) with the closure's visited and path passed along;
\* dfs_edges is its loop `for edge in edges: if dfs(edge.outgoing_node_id)`
RECURSIVE dfs(_, _, _, _), dfs_edges(_, _, _, _)
dfs(node_id, end_node_id, visited, path) ==
    IF node_id \in visited
    THEN [result |-> FALSE, visited |-> visited, path |-> path]
    ELSE LET visited1 == visited \cup {node_id}
             path1 == Append(path, node_id)
         IN IF node_id = end_node_id
            THEN [result |-> TRUE, visited |-> visited1, path |-> path1]
            ELSE LET r == dfs_edges(EdgesFrom(node_id), end_node_id, visited1, path1)
                 IN IF r.result THEN r
                    ELSE [result |-> FALSE, visited |-> r.visited,
                          path |-> PopPath(r.path)]

dfs_edges(todo, end_node_id, visited, path) ==
    IF todo = <<>>
    THEN [result |-> FALSE, visited |-> visited, path |-> path]
    ELSE LET r == dfs(edges[Head(todo)].outgoing_node_id, end_node_id, visited, path)
         IN IF r.result THEN r
            ELSE dfs_edges(Tail(todo), end_node_id, r.visited, r.path)

\* find_path(start_node_id, end_node_id): dfs(start_node_id); return path
find_path(start_node_id, end_node_id) ==
    /\ walk.status = "idle"
    /\ found = NoPath
    /\ found' = [start |-> start_node_id, end |-> end_node_id,
                 path |-> dfs(start_node_id, end_node_id, {}, <<>>).path]
    /\ UNCHANGED <<store, walk>>

\* ------------------------------------------------------------ the system
Init ==
    /\ trees = <<>>
    /\ versions = <<>>
    /\ nodes = <<>>
    /\ edges = <<>>
    /\ committed = [versions |-> 0, nodes |-> 0, edges |-> 0]
    /\ clock = 1
    /\ last = Outcome("init_db", 0, 0, NoError)
    /\ failed = {}
    /\ walk = NoWalk
    /\ found = NoPath

TreeIds == DOMAIN trees

Next ==
    \/ CreateTree
    \/ \E t \in TreeIds, d \in Descriptions : CreateFirstVersion(t, d)
    \/ \E t \in TreeIds, tag \in Tags, d \in Descriptions : create_tag(t, tag, d)
    \/ \E t \in TreeIds, tag \in Tags : create_new_tree_version_from_tag(t, tag)
    \/ \E t \in TreeIds, tag \in Tags : restore_from_tag(t, tag)
    \/ \E v \in VersionIds, d \in Data : add_node(v, d)
    \/ \E v \in VersionIds, n1 \in 1..(Len(nodes) + 1), n2 \in 1..(Len(nodes) + 1), d \in Data :
          add_edge(v, n1, n2, d)

Spec == Init /\ [][Next]_vars

\* Traversal and path-finding over the graphs a caller can build in one
\* version with add_node and add_edge (tests.py test_find_path builds one):
\* WalkNodes nodes and any sequence of at most WalkEdges edges between them.
WalkEdgeRows ==
    {[tree_version_id |-> 1, incoming_node_id |-> a, outgoing_node_id |-> b,
      data |-> "dependency"] : a \in 1..WalkNodes, b \in 1..WalkNodes}

SeqsUpTo(S, n) == UNION {[1..k -> S] : k \in 0..n}

InitWalk ==
    /\ trees = <<[name |-> "Root Configuration"]>>
    /\ versions = <<[tree_id |-> 1, parent_version_id |-> 0, tag |-> "v1.0",
                     description |-> UserDescription("First stable release"),
                     created_at |-> 1]>>
    /\ nodes = [i \in 1..WalkNodes |-> [tree_version_id |-> 1, data |-> "value1"]]
    /\ edges \in SeqsUpTo(WalkEdgeRows, WalkEdges)
    /\ committed = CommitAll(versions, nodes, edges)
    /\ clock = 2
    /\ last = Outcome("add_edge", 1, Len(edges), NoError)
    /\ failed = {}
    /\ walk = NoWalk
    /\ found = NoPath

NextWalk ==
    \/ \E n \in NodeIds : traverse_tree(n)
    \/ WalkCall
    \/ WalkReturn
    \/ \E a \in NodeIds, b \in NodeIds : find_path(a, b)

SpecWalk == InitWalk /\ [][NextWalk]_vars

\* ------------------------------------------------ find_path, call by call
\* The search as the interpreter runs it.  walk.stack holds the calls of dfs
\* that have not returned, innermost first, each with the edges its loop has
\* still to try; the list `path` is the nodes of those calls, outermost first;
\* walk.visits lists every call of dfs made, so the set `visited` is its range.
Searching == walk.status = "searching"

visited_sofar == {walk.visits[i] : i \in DOMAIN walk.visits}

path_sofar == [i \in 1..Len(walk.stack) |-> walk.stack[Len(walk.stack) + 1 - i].node]

\* find_path(start_node_id, end_node_id): visited = set(); path = [];
\* dfs(start_node_id) up to its edge loop
find_path_begin(start_node_id, end_node_id) ==
    /\ walk.status = "idle"
    /\ found = NoPath
    /\ walk' = [status |-> "searching", stack |-> <<Frame(start_node_id)>>,
                visits |-> <<start_node_id>>]
    /\ found' = [start |-> start_node_id, end |-> end_node_id, path |-> <<>>]
    /\ UNCHANGED store

\* FindCall with a fault: no `if node_id in visited: return False`
FindCall_NoVisited ==
    /\ Searching
    /\ Head(walk.stack).node # found.end
    /\ Head(walk.stack).todo # <<>>
    /\ LET top == Head(walk.stack)
           next == edges[Head(top.todo)].outgoing_node_id
           rest == <<[top EXCEPT !.todo = Tail(top.todo)]>> \o Tail(walk.stack)
       IN walk' = [walk EXCEPT !.stack = <<Frame(next)>> \o rest,
                               !.visits = Append(walk.visits, next)]
    /\ UNCHANGED <<store, found>>

\* for edge in edges: if dfs(edge.outgoing_node_id): the call returns False at
\* once on a visited node, else the node is added to visited and path
FindCall ==
    /\ Searching
    /\ Head(walk.stack).node # found.end
    /\ Head(walk.stack).todo # <<>>
    /\ LET top == Head(walk.stack)
           next == edges[Head(top.todo)].outgoing_node_id
           rest == <<[top EXCEPT !.todo = Tail(top.todo)]>> \o Tail(walk.stack)
       IN walk' = IF next \in visited_sofar
                  THEN [walk EXCEPT !.stack = rest,
                                    !.visits = Append(walk.visits, next)]
                  ELSE [walk EXCEPT !.stack = <<Frame(next)>> \o rest,
                                    !.visits = Append(walk.visits, next)]
    /\ UNCHANGED <<store, found>>

\* if node_id == end_node_id: return True, and every caller returns True in
\* turn without touching path; find_path returns path
FindHit ==
    /\ Searching
    /\ Head(walk.stack).node = found.end
    /\ walk' = [walk EXCEPT !.status = "done", !.stack = <<>>]
    /\ found' = [found EXCEPT !.path = path_sofar]
    /\ UNCHANGED store

\* the edge loop is exhausted: path.pop(); return False; when the outermost
\* call returns, find_path returns path
FindReturn ==
    /\ Searching
    /\ Head(walk.stack).node # found.end
    /\ Head(walk.stack).todo = <<>>
    /\ walk' = [walk EXCEPT !.stack = Tail(walk.stack),
                            !.status = IF Len(walk.stack) = 1 THEN "done"
                                       ELSE "searching"]
    /\ found' = IF Len(walk.stack) = 1
                 THEN [found EXCEPT !.path = PopPath(path_sofar)]
                 ELSE found
    /\ UNCHANGED store

NextFind ==
    \/ \E a \in NodeIds, b \in NodeIds : find_path_begin(a, b)
    \/ FindCall
    \/ FindHit
    \/ FindReturn

SpecFind == InitWalk /\ [][NextFind]_vars

\* ------------------------------------ create_new_version, statement by statement
\* The clone as the session runs it: the version row is flushed, the nodes are
\* flushed one by one, the edges are added, and one commit ends it.  Another
\* connection reads the committed rows at any point in between.  While the call
\* has not returned, `last` holds its arguments and the status InProgress; the
\* loops' positions are the numbers of rows the new version already has.
InProgress == "running"

Running == last.error = InProgress

\* Flush with a fault: the flush ends the transaction, as a commit does
Flush_Commits(vs, ns, es) == CommitAll(vs, ns, es)

\* session.flush(): the rows are sent within the open transaction; what is
\* committed stays what it was
Flush(vs, ns, es) == committed

\* new_version = TreeVersion(...); session.add(new_version); session.flush();
\* old_to_new_node = {}
create_new_version_begin(op, v, tag, description) ==
    LET new_versions == Append(versions, NewVersionRow(v, tag, description))
    IN /\ Len(versions) < MaxVersions
       /\ Len(nodes) + Cardinality(NodesOf(v)) <= MaxNodes
       /\ Len(edges) + EdgesCopied(v, NodeRemap(v)) <= MaxEdges
       /\ versions' = new_versions
       /\ clock' = clock + 1
       /\ committed' = Flush(new_versions, nodes, edges)
       /\ last' = Outcome(op, v, Len(new_versions), InProgress)
       /\ UNCHANGED <<trees, nodes, edges, failed, walk, found>>

\* Tree.create_tag up to the first statement of create_new_version
create_tag_begin(t, tag, description) ==
    /\ ~Running
    /\ LET latest == get_latest_version(t)
       IN IF latest = 0
          THEN Raise("create_tag", NoVersionsExist)
          ELSE create_new_version_begin("create_tag", latest, tag,
                                        UserDescription(description))

\* Tree.create_new_tree_version_from_tag, likewise
create_new_tree_version_from_tag_begin(t, tag) ==
    /\ ~Running
    /\ LET version == get_version_by_tag(t, tag)
       IN IF version = 0
          THEN Raise("create_new_tree_version_from_tag", TagNotFound)
          ELSE create_new_version_begin("create_new_tree_version_from_tag", version,
                                        Null, BranchDescription(tag))

\* Tree.restore_from_tag, likewise
restore_from_tag_begin(t, tag) ==
    /\ ~Running
    /\ LET version == get_version_by_tag(t, tag)
       IN IF version = 0
          THEN Raise("restore_from_tag", TagNotFound)
          ELSE create_new_version_begin("restore_from_tag", version, Null,
                                        RestoreDescription(tag))

\* the dict old_to_new_node as built so far by the running clone: the i-th
\* node of self.nodes, once copied, is the i-th row of the new version
old_to_new_node_sofar ==
    LET src == SortedSeq(NodesOf(last.source))
        new == SortedSeq(NodesOf(last.result))
    IN [o \in {src[i] : i \in 1..Len(new)} |-> new[IndexOf(src, o)]]

\* for node in self.nodes: one iteration (add, flush, record in the dict)
CloneNodeStep ==
    LET src == SortedSeq(NodesOf(last.source))
        c == Cardinality(NodesOf(last.result))
        new_nodes == Append(nodes, CopyNode(last.result, nodes[src[c + 1]]))
    IN /\ Running
       /\ c < Len(src)
       /\ nodes' = new_nodes
       /\ committed' = Flush(versions, new_nodes, edges)
       /\ UNCHANGED <<trees, versions, edges, clock, last, failed, walk, found>>

\* for edge in self.edges: one iteration; the lookup in old_to_new_node raises
\* KeyError out of create_new_version, and nothing is rolled back
CloneEdgeStep ==
    LET src == SortedSeq(EdgesOf(last.source))
        j == Cardinality(EdgesOf(last.result))
    IN /\ Running
       /\ Cardinality(NodesOf(last.result)) = Cardinality(NodesOf(last.source))
       /\ j < Len(src)
       /\ IF Remappable(edges[src[j + 1]], old_to_new_node_sofar)
          THEN /\ edges' = Append(edges, CopyEdge(last.result, edges[src[j + 1]],
                                                  old_to_new_node_sofar))
               /\ UNCHANGED <<last, failed>>
          ELSE /\ last' = [last EXCEPT !.error = DanglingReference]
               /\ failed' = failed \cup {last.result}
               /\ UNCHANGED edges
       /\ UNCHANGED <<trees, versions, nodes, committed, clock, walk, found>>

\* session.commit(); return new_version
CloneCommit ==
    /\ Running
    /\ Cardinality(NodesOf(last.result)) = Cardinality(NodesOf(last.source))
    /\ Cardinality(EdgesOf(last.result)) = Cardinality(EdgesOf(last.source))
    /\ committed' = CommitAll(versions, nodes, edges)
    /\ last' = [last EXCEPT !.error = NoError]
    /\ UNCHANGED <<trees, versions, nodes, edges, clock, failed, walk, found>>

\* the session makes one call at a time: the other calls start when no clone
\* is running
NextClone ==
    \/ ~Running /\ CreateTree
    \/ \E t \in TreeIds, d \in Descriptions : ~Running /\ CreateFirstVersion(t, d)
    \/ \E t \in TreeIds, tag \in Tags, d \in Descriptions : create_tag_begin(t, tag, d)
    \/ \E t \in TreeIds, tag \in Tags : create_new_tree_version_from_tag_begin(t, tag)
    \/ \E t \in TreeIds, tag \in Tags : restore_from_tag_begin(t, tag)
    \/ CloneNodeStep
    \/ CloneEdgeStep
    \/ CloneCommit
    \/ \E v \in VersionIds, d \in Data : ~Running /\ add_node(v, d)
    \/ \E v \in VersionIds, n1 \in 1..(Len(nodes) + 1), n2 \in 1..(Len(nodes) + 1), d \in Data :
          ~Running /\ add_edge(v, n1, n2, d)

SpecClone == Init /\ [][NextClone]_vars

\* ============================================================ properties
\* helpers of the properties (no part of the program)
CloneOps == {"create_tag", "create_new_tree_version_from_tag", "restore_from_tag"}

\* the last call reached TreeVersion.create_new_version
Cloned == last.op \in CloneOps /\ last.source # 0

Bijections(S, T) == {f \in [S -> T] : \A y \in T : \E x \in S : f[x] = y}

\* version `new` holds a complete copy of the graph of version `src`: a
\* one-to-one table f from src's nodes onto new's nodes, fresh ids and equal
\* data, and a one-to-one table g from src's edges onto new's edges, equal
\* data and endpoints translated through f
IsClone(src, new) ==
    /\ Cardinality(NodesOf(new)) = Cardinality(NodesOf(src))
    /\ Cardinality(EdgesOf(new)) = Cardinality(EdgesOf(src))
    /\ \E f \in Bijections(NodesOf(src), NodesOf(new)) :
          /\ \A n \in NodesOf(src) : f[n] # n /\ nodes[f[n]].data = nodes[n].data
          /\ \E g \in Bijections(EdgesOf(src), EdgesOf(new)) :
                \A e \in EdgesOf(src) :
                   /\ g[e] # e
                   /\ edges[g[e]].data = edges[e].data
                   /\ edges[e].incoming_node_id \in NodesOf(src)
                   /\ edges[e].outgoing_node_id \in NodesOf(src)
                   /\ edges[g[e]].incoming_node_id = f[edges[e].incoming_node_id]
                   /\ edges[g[e]].outgoing_node_id = f[edges[e].outgoing_node_id]

\* the nodes reachable from the nodes of S along edges, incoming -> outgoing
RECURSIVE Closure(_)
Closure(S) ==
    LET T == S \cup {edges[e].outgoing_node_id :
                        e \in {x \in EdgeIds : edges[x].incoming_node_id \in S}}
    IN IF T = S THEN S ELSE Closure(T)

Reachable(a) == Closure({a})

Count(s, x) == Cardinality({i \in DOMAIN s : s[i] = x})

\* the versions reached from v by following parent links at most k times
RECURSIVE Ancestors(_, _)
Ancestors(v, k) ==
    IF k = 0 \/ v \notin VersionIds \/ versions[v].parent_version_id = 0 THEN {}
    ELSE {versions[v].parent_version_id}
            \cup Ancestors(versions[v].parent_version_id, k - 1)

\* C1 (clone completeness): whenever create_new_version has been called on a
\* version V, it has produced a version holding exactly V's nodes (fresh ids,
\* same data) and exactly V's edges (same data, endpoints the corresponding
\* new nodes).
C1_CloneCompleteness ==
    Cloned => last.error = NoError /\ IsClone(last.source, last.result)

\* C2 (same-version edges): in every reachable state both endpoints of every
\* edge belong to the version the edge belongs to.
C2_EdgesWithinVersion ==
    \A e \in EdgeIds :
       /\ nodes[edges[e].incoming_node_id].tree_version_id = edges[e].tree_version_id
       /\ nodes[edges[e].outgoing_node_id].tree_version_id = edges[e].tree_version_id

\* C3 (tag uniqueness): in every reachable state no two versions of one tree
\* carry the same non-null tag.
C3_TagsUniquePerTree ==
    \A v \in VersionIds, w \in VersionIds :
       (v # w /\ versions[v].tree_id = versions[w].tree_id /\ versions[v].tag # Null)
          => versions[v].tag # versions[w].tag

\* C4 (tagged versions are immutable): no step changes the node set or the
\* edge set of a version that carries a non-null tag.
C4_TaggedVersionsImmutable ==
    [][\A v \in VersionIds :
          versions[v].tag # Null =>
             /\ {n \in DOMAIN nodes' : nodes'[n].tree_version_id = v} = NodesOf(v)
             /\ {e \in DOMAIN edges' : edges'[e].tree_version_id = v} = EdgesOf(v)]_vars

\* C5 (a failed clone is rolled back): the committed store never holds the
\* version row of a clone that failed, nor a node or edge row of that version,
\* neither right after the failure nor after later commits of the session.
C5_FailedCloneRolledBack ==
    \A v \in failed :
       /\ v \notin CommittedVersions
       /\ \A n \in CommittedNodes : nodes[n].tree_version_id # v
       /\ \A e \in CommittedEdges : edges[e].tree_version_id # v

\* C6 (lineage monotonicity): every version with a parent has a parent that
\* exists, is of the same tree and was created strictly before it, and no
\* version is its own ancestor.
C6_LineageMonotone ==
    \A v \in VersionIds :
       /\ versions[v].parent_version_id # 0 =>
             /\ versions[v].parent_version_id \in VersionIds
             /\ versions[versions[v].parent_version_id].tree_id = versions[v].tree_id
             /\ versions[versions[v].parent_version_id].created_at < versions[v].created_at
       /\ v \notin Ancestors(v, Len(versions))

\* C6 witness: a lineage of three versions, the last made by create_new_version
C6_Witness ==
    /\ Cloned
    /\ last.result \in VersionIds
    /\ versions[last.result].parent_version_id = last.source
    /\ versions[last.source].parent_version_id # 0

\* C7 (the walk terminates): a depth-first walk, from any node of any graph,
\* cyclic or not, runs to its end: it is never cut off by the call stack
\* running out.
C7_WalkTerminates == walk.status # "RecursionError"

\* C8 (each node exactly once): a finished walk has visited the start node and
\* every node reachable from it exactly once, and no other node.
C8_WalkVisitsOnce ==
    walk.status = "done" =>
       \A n \in NodeIds :
          Count(walk.visits, n) = IF n \in Reachable(walk.visits[1]) THEN 1 ELSE 0

\* the linear chain n1 -> n2 -> n3 of tests.py test_find_path
IsChain ==
    /\ Len(edges) = 2
    /\ edges[1].incoming_node_id = 1 /\ edges[1].outgoing_node_id = 2
    /\ edges[2].incoming_node_id = 2 /\ edges[2].outgoing_node_id = 3

\* consecutive nodes of the path are joined by an edge of the nodes' version
IsPath(path) ==
    \A i \in 1..(Len(path) - 1) :
       \E e \in EdgeIds :
          /\ edges[e].incoming_node_id = path[i]
          /\ edges[e].outgoing_node_id = path[i + 1]
          /\ edges[e].tree_version_id = nodes[path[i]].tree_version_id

C10_RestoreClonesTagged ==
    (Cloned /\ last.op \in {"create_new_tree_version_from_tag", "restore_from_tag"}) =>
       /\ last.error = NoError
       /\ versions[last.source].tag # Null
       /\ versions[last.result].tag = Null
       /\ versions[last.result].parent_version_id = last.source
       /\ versions[last.result].tree_id = versions[last.source].tree_id
       /\ IsClone(last.source, last.result)

\* C11 (the repository's test of restore): the version restore_from_tag
\* returns carries the tag it was restored from and the description given to
\* create_tag, i.e. the tag and the description of the tagged version.
C11_RestoreKeepsTagAndDescription ==
    (Cloned /\ last.op = "restore_from_tag") =>
       /\ versions[last.result].tag = versions[last.source].tag
       /\ versions[last.result].description = versions[last.source].description

\* IsClone read in the tables ns, es (the tables after a step, for instance)
IsCloneIn(ns, es, src, new) ==
    LET NodesIn(v) == {n \in DOMAIN ns : ns[n].tree_version_id = v}
        EdgesIn(v) == {e \in DOMAIN es : es[e].tree_version_id = v}
    IN /\ Cardinality(NodesIn(new)) = Cardinality(NodesIn(src))
       /\ Cardinality(EdgesIn(new)) = Cardinality(EdgesIn(src))
       /\ \E f \in Bijections(NodesIn(src), NodesIn(new)) :
             /\ \A n \in NodesIn(src) : f[n] # n /\ ns[f[n]].data = ns[n].data
             /\ \E g \in Bijections(EdgesIn(src), EdgesIn(new)) :
                   \A e \in EdgesIn(src) :
                      /\ g[e] # e
                      /\ es[g[e]].data = es[e].data
                      /\ es[e].incoming_node_id \in NodesIn(src)
                      /\ es[e].outgoing_node_id \in NodesIn(src)
                      /\ es[g[e]].incoming_node_id = f[es[e].incoming_node_id]
                      /\ es[g[e]].outgoing_node_id = f[es[e].outgoing_node_id]

\* version p of tree t has the greatest created_at of the tree
IsLatest(t, p) ==
    /\ p \in VersionsOfTree(t)
    /\ \A w \in VersionsOfTree(t) : versions[w].created_at <= versions[p].created_at

\* C12 (create_tag clones the latest version): a create_tag(tag, description)
\* step on a tree that has a version adds exactly one version, with the given
\* tag and description, whose parent is the tree's version of greatest
\* created_at and whose graph is a complete copy of the parent's; no existing
\* version row (the parent's tag included) changes.
C12_CreateTagClonesLatest ==
    [][last'.op = "create_tag" =>
       \A t \in TreeIds, tag \in Tags, d \in Descriptions :
          (VersionsOfTree(t) # {} /\ create_tag(t, tag, d)) =>
             /\ Len(versions') = Len(versions) + 1
             /\ \A v \in VersionIds : versions'[v] = versions[v]
             /\ versions'[Len(versions')].tag = tag
             /\ versions'[Len(versions')].description = UserDescription(d)
             /\ IsLatest(t, versions'[Len(versions')].parent_version_id)
             /\ last'.error = NoError
             /\ IsCloneIn(nodes', edges', versions'[Len(versions')].parent_version_id,
                          Len(versions'))]_vars

\* some version of tree t carries the tag
Carries(t, tag) ==
    \E v \in VersionIds : versions[v].tree_id = t /\ versions[v].tag = tag

\* C13 (tag resolution is scoped to the tree): get_version_by_tag(t, tag)
\* yields a version of tree t carrying the tag, or nothing when the tree has
\* none; a restore_from_tag / create_new_tree_version_from_tag step on (t, tag)
\* clones such a version, or, when the tree has none (whatever other trees
\* hold), ends with the tag-not-found error and adds no row.
C13_TagResolutionScoped ==
    /\ [](\A t \in TreeIds, tag \in Tags :
             /\ get_version_by_tag(t, tag) # 0 <=> Carries(t, tag)
             /\ get_version_by_tag(t, tag) # 0 =>
                   /\ versions[get_version_by_tag(t, tag)].tree_id = t
                   /\ versions[get_version_by_tag(t, tag)].tag = tag)
    /\ [][last'.op \in {"restore_from_tag", "create_new_tree_version_from_tag"} =>
          \A t \in TreeIds, tag \in Tags :
             (restore_from_tag(t, tag) \/ create_new_tree_version_from_tag(t, tag)) =>
                IF Carries(t, tag)
                THEN /\ Len(versions') = Len(versions) + 1
                     /\ versions'[Len(versions')].parent_version_id \in VersionIds
                     /\ versions[versions'[Len(versions')].parent_version_id].tree_id = t
                     /\ versions[versions'[Len(versions')].parent_version_id].tag = tag
                ELSE /\ last'.error = TagNotFound
                     /\ UNCHANGED <<trees, versions, nodes, edges, committed, failed>>]_vars

\* C13 witness: a restore/branch has failed with tag-not-found in a state where
\* a tree without versions stands beside a tree whose versions carry every tag
C13_Witness ==
    /\ last.op \in {"restore_from_tag", "create_new_tree_version_from_tag"}
    /\ last.error = TagNotFound
    /\ \E a \in TreeIds, b \in TreeIds :
          /\ VersionsOfTree(a) = {}
          /\ \A tag \in Tags : Carries(b, tag)
          /\ \A c \in TreeIds : c \in {a, b}

\* C14 (create_tag on a tree without versions): the step ends with the
\* no-versions-exist error and changes no table, in that tree or any other.
C14_CreateTagOnEmptyTree ==
    [][last'.op = "create_tag" =>
       \A t \in TreeIds, tag \in Tags, d \in Descriptions :
          (VersionsOfTree(t) = {} /\ create_tag(t, tag, d)) =>
             /\ last'.source = 0
             /\ last'.error = NoVersionsExist
             /\ UNCHANGED <<trees, versions, nodes, edges, committed, failed>>]_vars

\* C14 witness: create_tag has failed on an empty tree while another tree has
\* versions
C14_Witness ==
    /\ last.op = "create_tag"
    /\ last.error = NoVersionsExist
    /\ VersionIds # {}

\* C15 (add_edge validates its endpoints): an add_edge(v, a, b, data) step with
\* a or b not the id of an existing node ends with the node-not-found error and
\* inserts nothing; with both existing it inserts exactly one edge, in v, with
\* incoming node a, outgoing node b and the given data, under a fresh id.
C15_AddEdgeValidates ==
    [][last'.op = "add_edge" =>
       \A v \in VersionIds \cap {last'.source},
          a \in 1..(Len(nodes) + 1), b \in 1..(Len(nodes) + 1), d \in Data :
          add_edge(v, a, b, d) =>
             IF (\E n \in NodeIds : n = a) /\ (\E n \in NodeIds : n = b)
             THEN /\ last'.error = NoError
                  /\ Len(edges') = Len(edges) + 1
                  /\ \A e \in EdgeIds : edges'[e] = edges[e]
                  /\ last'.result = Len(edges') /\ last'.result \notin EdgeIds
                  /\ edges'[last'.result].tree_version_id = v
                  /\ edges'[last'.result].incoming_node_id = a
                  /\ edges'[last'.result].outgoing_node_id = b
                  /\ edges'[last'.result].data = d
                  /\ nodes' = nodes /\ versions' = versions
             ELSE /\ last'.error = NodeNotFound
                  /\ UNCHANGED <<trees, versions, nodes, edges, committed, failed>>]_vars

\* C15 witness: an edge between two different existing nodes has been inserted
C15_Witness ==
    /\ last.op = "add_edge" /\ last.error = NoError
    /\ last.result \in EdgeIds
    /\ edges[last.result].incoming_node_id # edges[last.result].outgoing_node_id
    /\ edges[last.result].tree_version_id = last.source

\* C16 (a clone never rewrites history): a create_tag, branch or restore step
\* that succeeds adds exactly one version, a child of the version it read and
\* the parent of none; every version, node and edge row that existed keeps its
\* fields, and every added node and edge belongs to the new version, so the
\* node and edge sets of the existing versions are what they were.
C16_CloneNeverRewritesHistory ==
    [][(last'.op \in CloneOps /\ last'.error = NoError) =>
       \A t \in TreeIds, tag \in Tags, d \in Descriptions :
          (\/ create_tag(t, tag, d)
           \/ create_new_tree_version_from_tag(t, tag)
           \/ restore_from_tag(t, tag)) =>
             /\ Len(versions') = Len(versions) + 1
             /\ \A v \in VersionIds : versions'[v] = versions[v]
             /\ versions'[Len(versions')].parent_version_id \in VersionsOfTree(t)
             /\ versions'[Len(versions')].tree_id = t
             /\ \A v \in DOMAIN versions' :
                   versions'[v].parent_version_id # Len(versions')
             /\ Len(nodes') >= Len(nodes) /\ Len(edges') >= Len(edges)
             /\ \A n \in NodeIds : nodes'[n] = nodes[n]
             /\ \A e \in EdgeIds : edges'[e] = edges[e]
             /\ \A n \in DOMAIN nodes' \ NodeIds :
                   nodes'[n].tree_version_id = Len(versions')
             /\ \A e \in DOMAIN edges' \ EdgeIds :
                   edges'[e].tree_version_id = Len(versions')
             /\ trees' = trees]_vars

\* C16 witness: a clone of a version holding nodes and an edge has succeeded
\* beside a third version
C16_Witness ==
    /\ Cloned /\ last.error = NoError
    /\ NodesOf(last.source) # {} /\ EdgesOf(last.source) # {}
    /\ NodesOf(last.result) # {} /\ EdgesOf(last.result) # {}
    /\ VersionIds \ {last.source, last.result} # {}

\* C17 (traversal never crosses versions): in every reachable store, the walk
\* from a node of version V reaches, and find_path from it visits and returns,
\* only nodes of V, and the edges followed from those nodes are edges of V.
C17_TraversalStaysInVersion ==
    \A a \in NodeIds :
       LET V == nodes[a].tree_version_id
       IN /\ \A n \in Reachable(a) :
                /\ nodes[n].tree_version_id = V
                /\ \A i \in DOMAIN EdgesFrom(n) :
                      edges[EdgesFrom(n)[i]].tree_version_id = V
          /\ \A b \in NodeIds :
                LET r == dfs(a, b, {}, <<>>)
                IN /\ \A n \in r.visited : nodes[n].tree_version_id = V
                   /\ \A i \in DOMAIN r.path : nodes[r.path[i]].tree_version_id = V

\* C18 (a clone becomes visible at once): while create_new_version runs,
\* whatever it has flushed or added so far, another connection reads no row of
\* the new version (no version row, no node, no edge); once it has returned,
\* the other connection reads the version with every node and edge of the
\* complete copy.
C18_CloneVisibilityAtomic ==
    /\ Running =>
          /\ last.result \notin CommittedVersions
          /\ NodesOf(last.result) \cap CommittedNodes = {}
          /\ EdgesOf(last.result) \cap CommittedEdges = {}
    /\ (Cloned /\ last.error = NoError) =>
          /\ last.result \in CommittedVersions
          /\ NodesOf(last.result) \subseteq CommittedNodes
          /\ EdgesOf(last.result) \subseteq CommittedEdges
          /\ IsClone(last.source, last.result)

\* C18 witness: a clone is running and has flushed one of the two nodes it
\* copies
C18_Witness ==
    /\ Running
    /\ NodesOf(last.result) # {}
    /\ Cardinality(NodesOf(last.result)) < Cardinality(NodesOf(last.source))

\* the store and the outcome a step ends with
StepOutcome ==
    [trees |-> trees', versions |-> versions', nodes |-> nodes', edges |-> edges',
     committed |-> committed', clock |-> clock', failed |-> failed', last |-> last']

\* the step ends as o does, but for the operation's name and, when a version
\* was made, that version's description
EndsAs(o, op, description) ==
    /\ trees' = o.trees
    /\ versions' = IF o.last.result = 0 THEN o.versions
                   ELSE [o.versions EXCEPT ![o.last.result].description = description]
    /\ nodes' = o.nodes
    /\ edges' = o.edges
    /\ committed' = o.committed
    /\ clock' = o.clock
    /\ failed' = o.failed
    /\ last' = [o.last EXCEPT !.op = op]

\* from one store and one tag, each of restore_from_tag and
\* create_new_tree_version_from_tag ends as the other would
BranchRestoreAgree(t, tag) ==
    /\ restore_from_tag(t, tag) =>
          \E o \in {StepOutcome} :
             ENABLED (/\ create_new_tree_version_from_tag(t, tag)
                      /\ EndsAs(o, "create_new_tree_version_from_tag",
                                BranchDescription(tag)))
    /\ create_new_tree_version_from_tag(t, tag) =>
          \E o \in {StepOutcome} :
             ENABLED (/\ restore_from_tag(t, tag)
                      /\ EndsAs(o, "restore_from_tag", RestoreDescription(tag)))

\* the step failed with tag-not-found and added nothing, or made a complete,
\* untagged copy of a version of tree t
FailsOnTagOrSucceeds(t) ==
    \/ /\ last'.error = TagNotFound
       /\ UNCHANGED <<trees, versions, nodes, edges, committed, failed>>
    \/ /\ last'.error = NoError
       /\ Len(versions') = Len(versions) + 1
       /\ versions'[Len(versions')].tree_id = t
       /\ versions'[Len(versions')].parent_version_id \in VersionsOfTree(t)
       /\ versions'[Len(versions')].tag = Null
       /\ IsCloneIn(nodes', edges', versions'[Len(versions')].parent_version_id,
                    Len(versions'))

\* C19 (branch and restore are one operation): from the same store and tag,
\* create_new_tree_version_from_tag and restore_from_tag either both fail with
\* tag-not-found, or both succeed with the same new version (tree, parent, no
\* tag, copied nodes and edges) and the same store, the description apart.
C19_BranchEqualsRestore ==
    [][last'.op \in {"restore_from_tag", "create_new_tree_version_from_tag"} =>
       \A t \in TreeIds, tag \in Tags :
          /\ BranchRestoreAgree(t, tag)
          /\ (restore_from_tag(t, tag) \/ create_new_tree_version_from_tag(t, tag)) =>
                FailsOnTagOrSucceeds(t)]_vars

\* the reference search: a stack of the nodes on the branch being explored,
\* each with the ids of its outgoing edges not yet tried, lowest id first; a
\* target seen before is skipped, an exhausted node is dropped from the
\* branch; the answer is the branch when its tip is the goal
RECURSIVE RefSearch(_, _, _)
RefSearch(branch, seen, goal) ==
    IF branch = <<>> THEN <<>>
    ELSE LET tip == branch[Len(branch)]
             below == SubSeq(branch, 1, Len(branch) - 1)
         IN IF tip.node = goal THEN [i \in DOMAIN branch |-> branch[i].node]
            ELSE IF tip.untried = {} THEN RefSearch(below, seen, goal)
            ELSE LET e == Min(tip.untried)
                     w == edges[e].outgoing_node_id
                     tried == Append(below, [tip EXCEPT !.untried = @ \ {e}])
                 IN IF w \in seen THEN RefSearch(tried, seen, goal)
                    ELSE RefSearch(
                            Append(tried,
                                   [node |-> w,
                                    untried |-> {x \in EdgeIds :
                                                    edges[x].incoming_node_id = w}]),
                            seen \cup {w}, goal)

RefPath(a, b) ==
    RefSearch(<<[node |-> a,
                 untried |-> {x \in EdgeIds : edges[x].incoming_node_id = a}]>>,
              {a}, b)

\* C20 (find_path returns the first path in depth-first edge order): the path
\* returned for (a, b) is the one the reference depth-first search finds when
\* it tries each node's outgoing edges in id order and skips nodes already
\* seen; it repeats no node and every node on it leads by an edge to the next,
\* so no node of an abandoned branch stays on it.  It need not be shortest.
C20_FindPathIsFirstDfsPath ==
    found.start # 0 =>
       /\ found.path = RefPath(found.start, found.end)
       /\ \A i \in DOMAIN found.path, j \in DOMAIN found.path :
             found.path[i] = found.path[j] => i = j
       /\ \A i \in 1..(Len(found.path) - 1) :
             \E e \in EdgeIds : /\ edges[e].incoming_node_id = found.path[i]
                                /\ edges[e].outgoing_node_id = found.path[i + 1]

\* C20 witness: a path of three nodes was returned although an edge joins its
\* first node to its last
C20_Witness ==
    /\ found.start # 0 /\ Len(found.path) = 3
    /\ \E e \in EdgeIds : /\ edges[e].incoming_node_id = found.start
                          /\ edges[e].outgoing_node_id = found.end

\* C21 (find_path terminates with an all-or-nothing answer): every step of a
\* running search makes a new call of dfs or returns from one, no call is
\* nested deeper than there are nodes and no more calls are made than one per
\* edge and one for the start, so the search ends, on cyclic graphs too.  The
\* result is empty exactly when the end is unreachable from the start, and is
\* otherwise a path without a repeated node from the start to the end, never
\* a part of one; find_path(a, a) is [a] whatever edges leave a.
C21_FindPathTerminates ==
    /\ [](/\ Len(walk.stack) <= Len(nodes)
          /\ Len(walk.visits) <= Len(edges) + 1)
    /\ [][Searching =>
             \/ walk'.status = "done"
             \/ 2 * Len(walk'.visits) - Len(walk'.stack)
                   > 2 * Len(walk.visits) - Len(walk.stack)]_vars
    /\ [](walk.status = "done" =>
             /\ (found.path = <<>>) <=> (found.end \notin Reachable(found.start))
             /\ found.path # <<>> =>
                   /\ found.path[1] = found.start
                   /\ found.path[Len(found.path)] = found.end
                   /\ \A n \in NodeIds : Count(found.path, n) <= 1
             /\ found.start = found.end => found.path = <<found.start>>
             /\ found.path = dfs(found.start, found.end, {}, <<>>).path)

\* C21 witness: a search from a node on a cycle for a node the cycle does not
\* lead to has ended, with nothing
C21_Witness ==
    /\ walk.status = "done" /\ found.path = <<>>
    /\ found.start # found.end
    /\ \E e \in EdgeIds :
          /\ edges[e].outgoing_node_id = found.start
          /\ edges[e].incoming_node_id \in Reachable(found.start) \ {found.start}

\* the graph of version v in the tables ns, es: its node rows and edge rows,
\* which is what a clone of v copies
GraphIn(ns, es, v) ==
    [nodes |-> {<<n, ns[n]>> : n \in {x \in DOMAIN ns : ns[x].tree_version_id = v}},
     edges |-> {<<e, es[e]>> : e \in {x \in DOMAIN es : es[x].tree_version_id = v}}]

\* the step added exactly one row, a node or an edge of version W, and left
\* every row that existed, the graph of every other version and the version
\* table as they were
AddsOneRowTo(W) ==
    /\ versions' = versions /\ trees' = trees
    /\ Len(nodes') + Len(edges') = Len(nodes) + Len(edges) + 1
    /\ Len(nodes') >= Len(nodes) /\ Len(edges') >= Len(edges)
    /\ \A n \in NodeIds : nodes'[n] = nodes[n]
    /\ \A e \in EdgeIds : edges'[e] = edges[e]
    /\ \A n \in DOMAIN nodes' \ NodeIds : nodes'[n].tree_version_id = W
    /\ \A e \in DOMAIN edges' \ EdgeIds : edges'[e].tree_version_id = W
    /\ \A v \in VersionIds \ {W} : GraphIn(nodes', edges', v) = GraphIn(nodes, edges, v)

\* C22 (snapshot isolation between versions): a successful add_node or
\* add_edge on version W adds exactly one record, to W, and changes neither
\* the graph of any other version nor the versions, their tags and parents;
\* and the graph a tag resolves to stays the one its version had, so that a
\* later restore_from_tag clones that graph.
C22_SnapshotIsolation ==
    [][(last'.op \in {"add_node", "add_edge"} /\ last'.error = NoError) =>
       \A W \in VersionIds \cap {last'.source} :
          ((\E d \in Data : add_node(W, d))
             \/ (\E a \in NodeIds, b \in NodeIds, d \in Data : add_edge(W, a, b, d))) =>
             /\ AddsOneRowTo(W)
             /\ \A t \in TreeIds, tag \in Tags :
                   get_version_by_tag(t, tag) # 0 =>
                      GraphIn(nodes', edges', get_version_by_tag(t, tag))
                         = GraphIn(nodes, edges, get_version_by_tag(t, tag))]_vars

====
